---- MODULE Spec2Model ----
(***************************************************************************)
(* AgentInventory: day-bucketed, offset-based pagination of a GraphQL      *)
(* backend (run_graphql_query_for_day), the query executor                 *)
(* (run_graphql_query), the result normalizer (process_query_results) and  *)
(* the orchestrating main, in the two revisions of the repository:         *)
(*   rev = 1  is  src/AgentInventory.py                                    *)
(*   rev = 2  is  src/AgentInventory2.0.py                                 *)
(*                                                                         *)
(* Python's None is modelled per type: NoTotal for a total that is None,   *)
(* a "present" flag for a dictionary key, a "kind" tag for a JSON value.   *)
(*                                                                         *)
(* Specifications:                                                         *)
(*   SpecPaginator   one call of run_graphql_query_for_day                 *)
(*   SpecBounded     the same against a backend with a finite result set   *)
(*   SpecOversize    the same against a backend that ignores the page size *)
(*   SpecRerun       the call made twice against an unchanged backend      *)
(*   SpecRevisions   the call made by revision 1, then by revision 2.0     *)
(*   SpecNormalizer  process_query_results on a batch of raw records       *)
(*   SpecMain        main of revision 2.0 with the paginator inside        *)
(*   SpecTabNames    the names of the detail sheets                        *)
(*   SpecWindows     the day windows of the look-back                      *)
(*   SpecRunWindows  the day windows of every unit of a whole run          *)
(***************************************************************************)
EXTENDS Integers, Sequences, FiniteSets, TLC

VARIABLES
    rev,            \* which revision of the script runs (1 or 2)
    backend,        \* what the remote service is: faithful over T records, or arbitrary
    environment,    \* the environment the running query filters by
    query_name,     \* the category of the running query
    day_offset,     \* the day of the look-back window the running query covers
    limit,          \* page size of the call
    offset,         \* run_graphql_query_for_day: offset of the next request
    all_results,    \* run_graphql_query_for_day: records accumulated so far
    total_records,  \* run_graphql_query_for_day: the total the termination check reads
    pc,             \* run_graphql_query_for_day: "loop", "returned" or "raised"
    requests,       \* history: the offsets sent to the executor, in order
    log,            \* history: what each request brought back
    first_total,    \* history: the first total that was not None, NoTotal before it
    batch,          \* process_query_results: the raw records it is given
    df,             \* process_query_results: the rows of the DataFrame it returns
    norm_pc,        \* process_query_results: "idle", "call", "returned" or "raised"
    main_pc,        \* main: "idle", "run", "done" or "crashed"
    main_results,   \* main: all_results, the raw records of the category so far
    sheets,         \* main: the detail sheets written to the workbook, in order
    unique_linux_ips,       \* main: set of the IPs seen for Linux Agents
    unique_windows_ips,     \* main: set of the IPs seen for Windows Agents
    total_services,         \* main: rows of the Services sheet
    total_healthchecks,     \* main: rows of the Healthchecks sheet
    combined_summary_data,  \* main: one summary row for each environment done
    summary_written,        \* main: the 'Inventory Summary' sheet has been written
    units,          \* history: the units of work started, in order
    fetched,        \* history: the records of the parsed pages of each <<environment, category>>
    deviations,     \* the answers the remote service has given that were not the faithful one
    deviant_at,     \* the position in units of the unit those answers were given to, 0 if none
    answers,        \* a second call: what the remote service answered at each offset asked so far
    runs,           \* a second call: the requests and the outcome of the calls that ended before
    tab_args,       \* tab names: the configured environment names and categories to name sheets for
    tab_names,      \* tab names: the names built so far, in order
    current_day,    \* day windows: the reading of the UTC clock the windows are counted from
    windows         \* day windows: the <<start_time, end_time>> computed so far, by day offset

unitVars == <<environment, query_name, day_offset>>

pagVars == <<rev, backend, limit, offset, all_results, total_records,
             pc, requests, log, first_total>>

normVars == <<batch, df, norm_pc>>

mainVars == <<main_pc, main_results, sheets, unique_linux_ips, unique_windows_ips,
              total_services, total_healthchecks, combined_summary_data,
              summary_written, units, fetched, deviations, deviant_at>>

rerunVars == <<answers, runs>>

tabVars == <<tab_args, tab_names>>

clockVars == <<current_day, windows>>

vars == <<unitVars, pagVars, normVars, mainVars, rerunVars, tabVars, clockVars>>

----------------------------------------------------------------------------
(* Bounds of the model *)

MaxLimit == 2       \* page sizes 1..MaxLimit
MaxRecords == 5     \* a faithful backend holds 0..MaxRecords records for the day
MaxRequests == 3    \* cap on the requests of one call against an arbitrary backend
MaxTotal == 2       \* an arbitrary backend declares totals 0..MaxTotal
MaxBatch == 2       \* process_query_results alone is given 0..MaxBatch records
NumEnvs == 2        \* environments of the configuration
LastXDays == 2      \* last_x_days of the configuration
MainLimit == 1      \* the page size main runs with (the default limit, scaled down)
MainRecords == 1    \* records the remote service holds for each unit of a run of main
MaxDeviations == 1  \* answers of a run of main, all to one unit, that may differ from the faithful one
MaxHeld == 2        \* a backend that answers any way it likes holds 0..MaxHeld records
MaxRerunRequests == 2   \* cap on the requests of a call that is repeated, against an arbitrary backend
MaxEnvLen == 18     \* the environment names tried for sheet names have 1..MaxEnvLen characters
TicksPerDay == 24   \* resolution of the clock: ticks in a day
MaxClock == 48      \* the clock is read within MaxClock ticks after the earliest reading
MaxExcess == 1      \* a backend that ignores the page size returns up to MaxExcess records more
MaxOversizeRequests == 3    \* cap on the requests of one call against such a backend

----------------------------------------------------------------------------
(* Values *)

\* total_records = None
NoTotal == -1

Categories == <<"Services", "Linux Agents", "Windows Agents", "Healthchecks">>

CategorySet == {Categories[i] : i \in 1..Len(Categories)}

\* The top-level key each query template asks for.
TemplateKey(q) == IF q = "Services" THEN "entities" ELSE "explore"

Min(a, b) == IF a < b THEN a ELSE b

Max(a, b) == IF a < b THEN b ELSE a

Last(seq) == seq[Len(seq)]

RECURSIVE Concat(_)
Concat(ss) == IF ss = <<>> THEN <<>> ELSE Head(ss) \o Concat(Tail(ss))

\* Strings are sequences of characters, so that strip() has something to do.
Space == " "

IP1 == <<"1">>

IP2 == <<"2">>

\* A JSON value under a key of a raw record: the key is absent, the value is
\* null, an object without 'value' (or with a null one), or an object whose
\* 'value' is a string.
Field(kind, value) == [kind |-> kind, value |-> value]

AbsentField == Field("absent", <<>>)

NullField == Field("null", <<>>)

NoValueField == Field("novalue", <<>>)

StrField(s) == Field("str", s)

\* The fields of a raw record that process_query_results reads.
RawFields(host, peer, hdr, hasInterval, calls) ==
    [tags_host_ip |-> host, tags_net_peer_ip |-> peer, requestHeaders_host_ip |-> hdr,
     hasIntervalStart |-> hasInterval, count_calls |-> calls]

\* A well-formed record of an agent that reports under ip.
GoodFields(ip) == RawFields(StrField(ip), AbsentField, AbsentField, TRUE, StrField(IP1))

\* A raw record: its fields, and where it came from: the unit of work
\* <<environment, category, day offset>> it was served for, the key of the
\* payload it was served under and its position (1-based) in the backend's
\* result set for that unit.
Rec(unit, key, id, f) == [unit |-> unit, src |-> key, id |-> id, f |-> f]

\* The n records a backend serves at offset o under key.
Page(unit, key, o, n, f) == [i \in 1..n |-> Rec(unit, key, o + i, f)]

\* One top-level object of a payload's data: {results: [...], total}.
AbsentShape == [present |-> FALSE, hasResults |-> FALSE, results |-> <<>>, total |-> NoTotal]

Shape(results, total) ==
    [present |-> TRUE, hasResults |-> TRUE, results |-> results, total |-> total]

NoResultsShape == [present |-> TRUE, hasResults |-> FALSE, results |-> <<>>, total |-> NoTotal]

\* What the network gives back for one POST.
Reply(status, errors, hasData, explore, entities) ==
    [status |-> status, errors |-> errors, hasData |-> hasData,
     explore |-> explore, entities |-> entities]

DataReply(explore, entities) == Reply("ok", "absent", TRUE, explore, entities)

----------------------------------------------------------------------------
(* The configuration of main *)

EnvNames == <<"prod", "staging", "dev", "qa">>

\* config['environments'].split(','), each name stripped
environments == SubSeq(EnvNames, 1, NumEnvs)

EnvCats == {<<environments[e], c>> : e \in 1..NumEnvs, c \in CategorySet}

\* The variables of main while main is not running.
MainIdle ==
    /\ main_pc = "idle"
    /\ main_results = <<>>
    /\ sheets = <<>>
    /\ unique_linux_ips = {}
    /\ unique_windows_ips = {}
    /\ total_services = 0
    /\ total_healthchecks = 0
    /\ combined_summary_data = <<>>
    /\ summary_written = FALSE
    /\ units = <<>>
    /\ fetched = [ec \in EnvCats |-> <<>>]
    /\ deviations = 0
    /\ deviant_at = 0

\* The variables of the other parts of the model while they are not used.
RerunIdle == answers = <<>> /\ runs = <<>>

TabIdle == tab_args = <<>> /\ tab_names = <<>>

ClockIdle == current_day = 0 /\ windows = <<>>

----------------------------------------------------------------------------
(* The remote service *)

\* A backend that holds T records for the day and serves offset o with the
\* records [o, min(o + limit, T)) under the key the query asked for.
FaithfulReply(b, unit, o, lim) ==
    LET q == unit[2]
        n == Min(lim, Max(b.T - o, 0))
        shape == Shape(Page(unit, TemplateKey(q), o, n, GoodFields(IP1)),
                       IF b.declares THEN b.T ELSE NoTotal)
    IN  IF TemplateKey(q) = "explore"
        THEN DataReply(shape, AbsentShape)
        ELSE DataReply(AbsentShape, shape)

\* The objects an arbitrary backend may put under one key at offset o: one
\* without results, or up to lim records with any total or none.
ArbitraryShapes(unit, key, o, lim) ==
    {NoResultsShape}
    \cup {Shape(Page(unit, key, o, n, GoodFields(IP1)), t) :
             n \in 0..lim, t \in {NoTotal} \cup 0..MaxTotal}

\* What an arbitrary backend may answer: a transport failure, an error list
\* (with or without data beside it, empty or not), a body without data, data
\* with neither key, with one key, or with both.
FullPage(unit, key, o, lim) == Shape(Page(unit, key, o, lim, GoodFields(IP1)), NoTotal)

ArbitraryReplies(unit, o, lim) ==
    {Reply("error", "absent", FALSE, AbsentShape, AbsentShape),
     Reply("ok", "nonempty", FALSE, AbsentShape, AbsentShape),
     Reply("ok", "nonempty", TRUE, FullPage(unit, "explore", o, lim), AbsentShape),
     Reply("ok", "empty", TRUE, FullPage(unit, "explore", o, lim), AbsentShape),
     Reply("ok", "absent", FALSE, AbsentShape, AbsentShape),
     DataReply(AbsentShape, AbsentShape)}
    \cup {DataReply(x, e) : x \in ArbitraryShapes(unit, "explore", o, lim),
                            e \in {AbsentShape, FullPage(unit, "entities", o, lim)}}
    \cup {DataReply(AbsentShape, e) : e \in ArbitraryShapes(unit, "entities", o, lim)}

\* What a backend may answer that holds T records, never returns more than
\* lim records and returns fewer than lim once the page reaches past the
\* end of its data: anything else an arbitrary backend may.
BoundedReplies(b, unit, o, lim) ==
    {r \in ArbitraryReplies(unit, o, lim) :
        o + lim > b.T => (Len(r.explore.results) < lim /\ Len(r.entities.results) < lim)}

\* What a backend may answer that does not keep to the page size asked for:
\* a failure, data without the key, or a page under the key the query asks
\* for, of any length up to MaxExcess records more than lim, with any total
\* or none.
OversizeReplies(unit, o, lim) ==
    {Reply("error", "absent", FALSE, AbsentShape, AbsentShape),
     DataReply(AbsentShape, AbsentShape)}
    \cup {IF TemplateKey(unit[2]) = "explore"
          THEN DataReply(Shape(Page(unit, "explore", o, n, GoodFields(IP1)), t), AbsentShape)
          ELSE DataReply(AbsentShape, Shape(Page(unit, "entities", o, n, GoodFields(IP1)), t)) :
             n \in 0..(lim + MaxExcess), t \in {NoTotal} \cup 0..MaxTotal}

Replies(b, unit, o, lim) ==
    IF b.mode = "faithful" THEN {FaithfulReply(b, unit, o, lim)}
    ELSE IF b.mode = "bounded" THEN BoundedReplies(b, unit, o, lim)
    ELSE IF b.mode = "oversize" THEN OversizeReplies(unit, o, lim)
    ELSE ArbitraryReplies(unit, o, lim)

Backends ==
    {[mode |-> "faithful", T |-> t, declares |-> d] : t \in 0..MaxRecords, d \in BOOLEAN}
    \cup {[mode |-> "arbitrary", T |-> 0, declares |-> FALSE]}

----------------------------------------------------------------------------
(* run_graphql_query: one POST, None on a transport failure, a non-success *)
(* status or a body with an 'errors' key, else the parsed body.            *)

run_graphql_query(reply) ==
    IF reply.status # "ok" \/ reply.errors # "absent"
    THEN [none |-> TRUE, hasData |-> FALSE, explore |-> AbsentShape, entities |-> AbsentShape]
    ELSE [none |-> FALSE, hasData |-> reply.hasData,
          explore |-> reply.explore, entities |-> reply.entities]

----------------------------------------------------------------------------
(* run_graphql_query_for_day *)

\* (variant: 'entities' is looked for first)
ReadKey_entitiesFirst(result_json) ==
    IF result_json.entities.present THEN "entities"
    ELSE IF result_json.explore.present THEN "explore"
    ELSE "neither"

\* The key the results are read from: 'explore' when the payload has it,
\* else 'entities' when the payload has it, else neither.
ReadKey(result_json) ==
    IF result_json.explore.present THEN "explore"
    ELSE IF result_json.entities.present THEN "entities"
    ELSE "neither"

\* total_records after a page: the page's total, None when the page has none.
PageTotal(previous, shape) == shape.total

\* (variant: the call stops one record before the total)
TotalReached_offByOne(r, total, nAll) == r = 2 /\ total # NoTotal /\ nAll + 1 >= total

\* (variant: the comparison with the total is strict)
TotalReached_strict(r, total, nAll) == r = 2 /\ total # NoTotal /\ nAll > total

\* The two break conditions after a page has been appended. Revision 1 reads
\* the total and never compares against it.
TotalReached(r, total, nAll) == r = 2 /\ total # NoTotal /\ nAll >= total

\* (variant: a full page counts as short)
ShortPage_le(nCur, lim) == nCur <= lim

ShortPage(nCur, lim) == nCur < lim

\* (variant: the offset is not advanced)
NextOffset_stay(o, lim) == o

\* (variant: the offset counts pages, not records)
NextOffset_byOne(o, lim) == o + 1

NextOffset(o, lim) == o + lim

\* (variant: the page is put in front of what was accumulated)
Extend_prepend(acc, current_results) == current_results \o acc

\* all_results after extend(current_results).
Extend(acc, current_results) == acc \o current_results

\* History only: an entry of the log, and the first total that was not None.
\* The known keys that the data of a parsed body holds.
KeysOf(result_json) ==
    {k \in {"explore", "entities"} :
        IF k = "explore" THEN result_json.explore.present
        ELSE result_json.entities.present}

LogEntry(o, reply, outcome, keys, key, results) ==
    [offset |-> o, status |-> reply.status, errors |-> reply.errors,
     outcome |-> outcome, keys |-> keys, key |-> key, results |-> results]

FirstTotal(seen, total) == IF seen = NoTotal THEN total ELSE seen

\* (variant: the loop goes on to the same request again instead of breaking)
Break_retry(entry) ==
    /\ pc' = "loop"
    /\ log' = Append(log, entry)
    /\ UNCHANGED <<offset, all_results, total_records, first_total>>

\* (variant: the call gives up what it has accumulated when it breaks)
Break_discard(entry) ==
    /\ pc' = "returned"
    /\ log' = Append(log, entry)
    /\ all_results' = <<>>
    /\ UNCHANGED <<offset, total_records, first_total>>

\* The call returns all_results (break), leaving the loop variables as they are.
Break(entry) ==
    /\ pc' = "returned"
    /\ log' = Append(log, entry)
    /\ UNCHANGED <<offset, all_results, total_records, first_total>>

\* One iteration of the while loop: the request at the current offset and
\* everything the code does with what comes back.
FetchPage(reply) ==
    /\ pc = "loop"
    /\ backend.mode = "arbitrary" => Len(requests) < MaxRequests
    /\ requests' = Append(requests, offset)
    /\ UNCHANGED <<rev, backend, limit>>
    /\ LET result_json == run_graphql_query(reply)
           key == ReadKey(result_json)
           shape == IF key = "explore" THEN result_json.explore ELSE result_json.entities
       IN  IF result_json.none
           THEN Break(LogEntry(offset, reply, "none", {}, "neither", <<>>))
           ELSE IF ~result_json.hasData
           THEN \* result_json['data'] raises KeyError, which nothing catches
                /\ pc' = "raised"
                /\ log' = Append(log, LogEntry(offset, reply, "nodata", {}, "neither", <<>>))
                /\ UNCHANGED <<offset, all_results, total_records, first_total>>
           ELSE IF key = "neither"
           THEN Break(LogEntry(offset, reply, "unexpected", {}, "neither", <<>>))
           ELSE IF ~shape.hasResults
           THEN \* [...]['results'] raises KeyError before total_records is assigned
                /\ pc' = "raised"
                /\ log' = Append(log, LogEntry(offset, reply, "noresults",
                                               KeysOf(result_json), key, <<>>))
                /\ UNCHANGED <<offset, all_results, total_records, first_total>>
           ELSE LET current_results == shape.results
                    total == PageTotal(total_records, shape)
                    acc == Extend(all_results, current_results)
                    stop == TotalReached(rev, total, Len(acc))
                            \/ ShortPage(Len(current_results), limit)
                IN  /\ all_results' = acc
                    /\ total_records' = total
                    /\ log' = Append(log, LogEntry(offset, reply, "page",
                                                   KeysOf(result_json), key, current_results))
                    /\ first_total' = FirstTotal(first_total, shape.total)
                    /\ pc' = IF stop THEN "returned" ELSE "loop"
                    /\ offset' = IF stop THEN offset ELSE NextOffset(offset, limit)

\* The unit of work the running query belongs to.
Unit == <<environment, query_name, day_offset>>

Request ==
    /\ main_pc = "idle"
    /\ \E reply \in Replies(backend, Unit, offset, limit) : FetchPage(reply)
    /\ UNCHANGED <<unitVars, normVars, mainVars, rerunVars, tabVars, clockVars>>

\* The state at the call of run_graphql_query_for_day.
PagInit ==
    /\ rev \in {1, 2}
    /\ backend \in Backends
    /\ environment = "prod"
    /\ query_name \in CategorySet
    /\ day_offset = 0
    /\ limit \in 1..MaxLimit
    /\ offset = 0
    /\ all_results = <<>>
    /\ total_records = NoTotal
    /\ pc = "loop"
    /\ requests = <<>>
    /\ log = <<>>
    /\ first_total = NoTotal
    /\ batch = <<>>
    /\ df = <<>>
    /\ norm_pc = "idle"
    /\ MainIdle /\ RerunIdle /\ TabIdle /\ ClockIdle

PagNext == Request

SpecPaginator == PagInit /\ [][PagNext]_vars

\* The same call against a backend that holds a finite number of records and
\* answers with any mix of pages, totals and failures. The loop is given no
\* cap: every iteration that can be taken is taken.
BoundedBackends ==
    {[mode |-> "bounded", T |-> t, declares |-> FALSE] : t \in 0..MaxHeld}

BoundedInit ==
    /\ rev \in {1, 2}
    /\ backend \in BoundedBackends
    /\ environment = "prod"
    /\ query_name \in {"Services", "Linux Agents"}
    /\ day_offset = 0
    /\ limit \in 1..MaxLimit
    /\ offset = 0
    /\ all_results = <<>>
    /\ total_records = NoTotal
    /\ pc = "loop"
    /\ requests = <<>>
    /\ log = <<>>
    /\ first_total = NoTotal
    /\ batch = <<>>
    /\ df = <<>>
    /\ norm_pc = "idle"
    /\ MainIdle /\ RerunIdle /\ TabIdle /\ ClockIdle

SpecBounded == BoundedInit /\ [][PagNext]_vars /\ WF_vars(PagNext)

\* The same call against a backend that may return more records than the
\* page size asked for.
OversizeBackends == {[mode |-> "oversize", T |-> 0, declares |-> FALSE]}

OversizeRequest ==
    /\ main_pc = "idle"
    /\ Len(requests) < MaxOversizeRequests
    /\ \E reply \in Replies(backend, Unit, offset, limit) : FetchPage(reply)
    /\ UNCHANGED <<unitVars, normVars, mainVars, rerunVars, tabVars, clockVars>>

OversizeInit ==
    /\ rev \in {1, 2}
    /\ backend \in OversizeBackends
    /\ environment = "prod"
    /\ query_name \in {"Services", "Linux Agents"}
    /\ day_offset = 0
    /\ limit \in 1..MaxLimit
    /\ offset = 0
    /\ all_results = <<>>
    /\ total_records = NoTotal
    /\ pc = "loop"
    /\ requests = <<>>
    /\ log = <<>>
    /\ first_total = NoTotal
    /\ batch = <<>>
    /\ df = <<>>
    /\ norm_pc = "idle"
    /\ MainIdle /\ RerunIdle /\ TabIdle /\ ClockIdle

OversizeNext == OversizeRequest

SpecOversize == OversizeInit /\ [][OversizeNext]_vars

----------------------------------------------------------------------------
(* process_query_results *)

IsSpace(c) == c = Space

RECURSIVE LStrip(_)
LStrip(s) == IF s # <<>> /\ IsSpace(Head(s)) THEN LStrip(Tail(s)) ELSE s

RECURSIVE RStrip(_)
RStrip(s) ==
    IF s # <<>> /\ IsSpace(s[Len(s)]) THEN RStrip(SubSeq(s, 1, Len(s) - 1)) ELSE s

\* str.strip()
Strip(s) == RStrip(LStrip(s))

\* bool(x) of a string or None: a string is true when it is not empty.
Truthy(field) == field.kind = "str" /\ field.value # <<>>

\* result.get(key, {}).get('value'): the call on a null raises AttributeError.
GetValueRaises(field) == field.kind = "null"

\* (variant: the IP is taken from the last candidate that is set)
ResolveIp_lastWins(f) ==
    IF GetValueRaises(f.tags_host_ip) \/ GetValueRaises(f.tags_net_peer_ip)
       \/ GetValueRaises(f.requestHeaders_host_ip)
    THEN [raised |-> TRUE, truthy |-> FALSE, value |-> <<>>]
    ELSE IF Truthy(f.requestHeaders_host_ip)
    THEN [raised |-> FALSE, truthy |-> TRUE, value |-> f.requestHeaders_host_ip.value]
    ELSE IF Truthy(f.tags_net_peer_ip)
    THEN [raised |-> FALSE, truthy |-> TRUE, value |-> f.tags_net_peer_ip.value]
    ELSE [raised |-> FALSE, truthy |-> Truthy(f.tags_host_ip),
          value |-> f.tags_host_ip.value]

\* host or peer or header, left to right: a candidate is evaluated only when
\* the ones before it are false.
ResolveIp(f) ==
    IF GetValueRaises(f.tags_host_ip)
    THEN [raised |-> TRUE, truthy |-> FALSE, value |-> <<>>]
    ELSE IF Truthy(f.tags_host_ip)
    THEN [raised |-> FALSE, truthy |-> TRUE, value |-> f.tags_host_ip.value]
    ELSE IF GetValueRaises(f.tags_net_peer_ip)
    THEN [raised |-> TRUE, truthy |-> FALSE, value |-> <<>>]
    ELSE IF Truthy(f.tags_net_peer_ip)
    THEN [raised |-> FALSE, truthy |-> TRUE, value |-> f.tags_net_peer_ip.value]
    ELSE IF GetValueRaises(f.requestHeaders_host_ip)
    THEN [raised |-> TRUE, truthy |-> FALSE, value |-> <<>>]
    ELSE [raised |-> FALSE, truthy |-> Truthy(f.requestHeaders_host_ip),
          value |-> f.requestHeaders_host_ip.value]

\* A row of the DataFrame; unit and id say which raw record it was made from.
Row(kind, ip, rec) == [kind |-> kind, ip |-> ip, unit |-> rec.unit, id |-> rec.id]

\* What one iteration of the agent loop does with a raw record: appends a
\* row, skips the record, or raises.
AgentRecord(rec) ==
    LET ip == ResolveIp(rec.f)
    IN  IF ip.raised THEN [outcome |-> "AttributeError", row |-> Row("agent", <<>>, rec)]
        ELSE IF ~ip.truthy THEN [outcome |-> "skip", row |-> Row("agent", <<>>, rec)]
        ELSE IF ~rec.f.hasIntervalStart
        THEN [outcome |-> "KeyError", row |-> Row("agent", <<>>, rec)]
        ELSE IF rec.f.count_calls.kind \in {"absent", "novalue"}
        THEN [outcome |-> "KeyError", row |-> Row("agent", <<>>, rec)]
        ELSE IF rec.f.count_calls.kind = "null"
        THEN [outcome |-> "TypeError", row |-> Row("agent", <<>>, rec)]
        ELSE [outcome |-> "row", row |-> Row("agent", Strip(ip.value), rec)]

\* The agent loop from record i on, with the rows collected so far. A KeyError
\* is caught around the whole loop and gives an empty DataFrame; any other
\* exception leaves the function.
RECURSIVE AgentRows(_, _, _)
AgentRows(results, i, data) ==
    IF i > Len(results) THEN [raised |-> FALSE, rows |-> data]
    ELSE LET r == AgentRecord(results[i])
         IN  CASE r.outcome = "row" -> AgentRows(results, i + 1, Append(data, r.row))
               [] r.outcome = "skip" -> AgentRows(results, i + 1, data)
               [] r.outcome = "KeyError" -> [raised |-> FALSE, rows |-> <<>>]
               [] OTHER -> [raised |-> TRUE, rows |-> <<>>]

\* The Services comprehension: one row per raw record, absent fields as None.
ServiceRows(results) == [i \in 1..Len(results) |-> Row("service", <<>>, results[i])]

process_query_results(q, results) ==
    IF q = "Services"
    THEN [raised |-> FALSE, rows |-> ServiceRows(results)]
    ELSE AgentRows(results, 1, <<>>)

\* The raw records process_query_results is tried on: each candidate alone,
\* padded, empty, blank, null; several candidates at once; no candidate; a
\* record without its interval start or its call count.
Blank == <<Space>>

Padded(ip) == <<Space>> \o ip \o <<Space>>

NormFields ==
    {GoodFields(IP1),
     GoodFields(Padded(IP1)),
     RawFields(StrField(IP1), StrField(IP2), AbsentField, TRUE, StrField(IP1)),
     RawFields(AbsentField, StrField(IP2), AbsentField, TRUE, StrField(IP1)),
     RawFields(AbsentField, AbsentField, StrField(IP2), TRUE, StrField(IP1)),
     RawFields(NoValueField, StrField(<<>>), StrField(Padded(IP2)), TRUE, StrField(IP1)),
     RawFields(AbsentField, AbsentField, AbsentField, TRUE, StrField(IP1)),
     RawFields(StrField(<<>>), NoValueField, StrField(<<>>), FALSE, AbsentField),
     RawFields(StrField(Blank), AbsentField, AbsentField, TRUE, StrField(IP1)),
     RawFields(StrField(Blank), StrField(IP2), AbsentField, TRUE, StrField(IP1)),
     RawFields(StrField(IP1), AbsentField, AbsentField, FALSE, StrField(IP1)),
     RawFields(StrField(IP1), AbsentField, AbsentField, TRUE, AbsentField),
     RawFields(StrField(IP1), NullField, AbsentField, TRUE, NullField),
     RawFields(NullField, StrField(IP2), AbsentField, TRUE, StrField(IP1))}

RECURSIVE Batches(_, _)
Batches(unit, n) ==
    IF n = 0 THEN {<<>>}
    ELSE LET shorter == Batches(unit, n - 1)
         IN  shorter \cup
             {Append(b, Rec(unit, TemplateKey(unit[2]), Len(b) + 1, f)) :
                 b \in {x \in shorter : Len(x) = n - 1}, f \in NormFields}

\* The call process_query_results(query_name, {'data': {key: {'results': batch}}}).
Normalize ==
    /\ norm_pc = "call"
    /\ LET out == process_query_results(query_name, batch)
       IN  /\ df' = out.rows
           /\ norm_pc' = IF out.raised THEN "raised" ELSE "returned"
    /\ UNCHANGED <<unitVars, pagVars, batch, mainVars, rerunVars, tabVars, clockVars>>

NormInit ==
    /\ rev \in {1, 2}
    /\ backend = [mode |-> "arbitrary", T |-> 0, declares |-> FALSE]
    /\ environment = "prod"
    /\ query_name \in CategorySet
    /\ day_offset = 0
    /\ limit = 1
    /\ offset = 0
    /\ all_results = <<>>
    /\ total_records = NoTotal
    /\ pc = "idle"
    /\ requests = <<>>
    /\ log = <<>>
    /\ first_total = NoTotal
    /\ batch \in Batches(<<"prod", query_name, 0>>, MaxBatch)
    /\ df = <<>>
    /\ norm_pc = "call"
    /\ MainIdle /\ RerunIdle /\ TabIdle /\ ClockIdle

NormNext == Normalize

SpecNormalizer == NormInit /\ [][NormNext]_vars

----------------------------------------------------------------------------
(* main, revision 2.0 *)

CatIndex(q) == CHOOSE i \in 1..Len(Categories) : Categories[i] = q

EnvIndex(e) == CHOOSE i \in 1..NumEnvs : environments[i] = e

\* The faithful answer in a run of main: every unit holds backend.T records,
\* and only the Services template asks for the total.
MainFaithfulReply(unit, o, lim) ==
    FaithfulReply([mode |-> "faithful", T |-> backend.T,
                   declares |-> TemplateKey(unit[2]) = "entities"], unit, o, lim)

\* An environment the remote service has nothing for during the run: every
\* request for it fails, or every one is answered with an empty page.
NoOutage == [env |-> "none", how |-> "none"]

Outages ==
    {NoOutage} \cup {[env |-> environments[e], how |-> h] :
                        e \in 1..NumEnvs, h \in {"fails", "empty"}}

\* What the remote service answers when nothing goes wrong but the outage.
MainReply(unit, o, lim) ==
    IF backend.out.env # unit[1] THEN MainFaithfulReply(unit, o, lim)
    ELSE IF backend.out.how = "fails"
    THEN Reply("error", "absent", FALSE, AbsentShape, AbsentShape)
    ELSE FaithfulReply([mode |-> "faithful", T |-> 0,
                        declares |-> TemplateKey(unit[2]) = "entities"], unit, o, lim)

OtherKey(key) == IF key = "explore" THEN "entities" ELSE "explore"

\* Fields of the records of a page that deviates: another IP, no IP, a blank
\* IP, no interval start, a null field.
DeviantFields ==
    {GoodFields(IP2),
     RawFields(AbsentField, AbsentField, AbsentField, TRUE, StrField(IP1)),
     RawFields(StrField(Blank), AbsentField, AbsentField, TRUE, StrField(IP1)),
     RawFields(StrField(IP1), AbsentField, AbsentField, FALSE, StrField(IP1)),
     RawFields(NullField, AbsentField, AbsentField, TRUE, StrField(IP1))}

OneKeyReply(key, shape) ==
    IF key = "explore" THEN DataReply(shape, AbsentShape) ELSE DataReply(AbsentShape, shape)

\* The answers that deviate from the faithful one: a transport failure, an
\* error list, a body without data, data with neither key, a key without
\* results, a full page of deviant records, a full page under the other key.
DeviantReplies(unit, o, lim) ==
    LET key == TemplateKey(unit[2])
    IN  {Reply("error", "absent", FALSE, AbsentShape, AbsentShape),
         Reply("ok", "nonempty", FALSE, AbsentShape, AbsentShape),
         Reply("ok", "absent", FALSE, AbsentShape, AbsentShape),
         DataReply(AbsentShape, AbsentShape),
         OneKeyReply(key, NoResultsShape),
         OneKeyReply(OtherKey(key), FullPage(unit, OtherKey(key), o, lim))}
        \cup {OneKeyReply(key, Shape(Page(unit, key, o, lim, f), NoTotal)) :
                f \in DeviantFields}

\* (variant: the call goes on from the offset and the records of the call before)
StartUnit_carry(env, q, day) ==
    /\ environment' = env
    /\ query_name' = q
    /\ day_offset' = day
    /\ offset' = offset
    /\ all_results' = all_results
    /\ total_records' = NoTotal
    /\ pc' = "loop"
    /\ requests' = <<>>
    /\ log' = <<>>
    /\ first_total' = NoTotal
    /\ units' = Append(units, <<env, q, day>>)

\* The call run_graphql_query_for_day(...) for a unit: its local variables.
StartUnit(env, q, day) ==
    /\ environment' = env
    /\ query_name' = q
    /\ day_offset' = day
    /\ offset' = 0
    /\ all_results' = <<>>
    /\ total_records' = NoTotal
    /\ pc' = "loop"
    /\ requests' = <<>>
    /\ log' = <<>>
    /\ first_total' = NoTotal
    /\ units' = Append(units, <<env, q, day>>)

\* The remote service of a run of main answers faithfully, except for up to
\* MaxDeviations answers to one unit of the run, or except for an outage.
MayDeviate ==
    /\ backend.out = NoOutage
    /\ deviations < MaxDeviations
    /\ deviations = 0 \/ deviant_at = Len(units)

\* One iteration of the paginator's loop inside a run of main. An exception
\* that leaves run_graphql_query_for_day leaves main as well.
MainRequest ==
    /\ main_pc = "run"
    /\ \E reply \in {MainReply(Unit, offset, limit)}
                    \cup (IF MayDeviate THEN DeviantReplies(Unit, offset, limit) ELSE {}) :
          /\ FetchPage(reply)
          /\ IF reply = MainReply(Unit, offset, limit)
             THEN UNCHANGED <<deviations, deviant_at>>
             ELSE deviations' = deviations + 1 /\ deviant_at' = Len(units)
    /\ main_pc' = IF pc' = "raised" THEN "crashed" ELSE "run"
    /\ fetched' = [fetched EXCEPT ![<<environment, query_name>>] =
                      @ \o (IF Last(log').outcome = "page" THEN Last(log').results
                            ELSE <<>>)]
    /\ UNCHANGED <<unitVars, normVars, main_results, sheets, unique_linux_ips,
                   unique_windows_ips, total_services, total_healthchecks,
                   combined_summary_data, summary_written, units, rerunVars, tabVars, clockVars>>

\* (variant: the healthchecks are counted by the raw records)
HealthchecksAfter_raw ==
    IF query_name = "Healthchecks" THEN Len(main_results \o all_results)
    ELSE total_healthchecks

\* (variant: the day's records replace those of the days before)
ExtendDay_replace(acc, day_results) == day_results

\* all_results.extend(day_results)
ExtendDay(acc, day_results) == acc \o day_results

\* The category's raw records once the day that just returned is added.
CategoryResults == ExtendDay(main_results, all_results)

\* df = process_query_results(query_name, {'data': {key: {'results': all_results}}})
Processed == process_query_results(query_name, CategoryResults)

IpsOf(rows) == {rows[i].ip : i \in 1..Len(rows)}

\* The workbook and the counters after the category's DataFrame is handled:
\* nothing changes when it is empty.
SheetsAfter ==
    IF Processed.rows = <<>> THEN sheets
    ELSE Append(sheets, [kind |-> "detail", environment |-> environment,
                         query_name |-> query_name, rows |-> Processed.rows])

LinuxAfter ==
    IF Processed.rows # <<>> /\ query_name = "Linux Agents"
    THEN unique_linux_ips \cup IpsOf(Processed.rows) ELSE unique_linux_ips

WindowsAfter ==
    IF Processed.rows # <<>> /\ query_name = "Windows Agents"
    THEN unique_windows_ips \cup IpsOf(Processed.rows) ELSE unique_windows_ips

ServicesAfter ==
    IF Processed.rows # <<>> /\ query_name = "Services"
    THEN Len(Processed.rows) ELSE total_services

HealthchecksAfter ==
    IF Processed.rows # <<>> /\ query_name = "Healthchecks"
    THEN Len(Processed.rows) ELSE total_healthchecks

\* The number of rows of the detail sheet written for a category of the
\* running environment, 0 when none was written.
SheetRows(q) ==
    LET written == {i \in 1..Len(sheets) :
                       sheets[i].environment = environment /\ sheets[i].query_name = q}
    IN  IF written = {} THEN 0 ELSE Len(sheets[CHOOSE i \in written : TRUE].rows)

\* (variant: the agents are counted by the rows of their sheets)
SummaryRow_countRows ==
    [environment |-> environment,
     total_linux_ips |-> SheetRows("Linux Agents"),
     total_windows_ips |-> SheetRows("Windows Agents"),
     total_services |-> ServicesAfter,
     total_healthchecks |-> HealthchecksAfter]

SummaryRow ==
    [environment |-> environment,
     total_linux_ips |-> Cardinality(LinuxAfter),
     total_windows_ips |-> Cardinality(WindowsAfter),
     total_services |-> ServicesAfter,
     total_healthchecks |-> HealthchecksAfter]

LastDay == day_offset + 1 = LastXDays

LastCategory == CatIndex(query_name) = Len(Categories)

LastEnvironment == EnvIndex(environment) = NumEnvs

\* The day's call returned and the category has a day left: extend and go on
\* to the next day.
NextDay ==
    /\ main_pc = "run" /\ pc = "returned"
    /\ ~LastDay
    /\ main_results' = CategoryResults
    /\ StartUnit(environment, query_name, day_offset + 1)
    /\ UNCHANGED <<rev, backend, limit, normVars, main_pc, sheets, unique_linux_ips,
                   unique_windows_ips, total_services, total_healthchecks,
                   combined_summary_data, summary_written, fetched, deviations, deviant_at,
                   rerunVars, tabVars, clockVars>>

\* The last day of a category returned: normalize, write the sheet, update
\* the counters, and go on to the next category of the environment.
NextCategory ==
    /\ main_pc = "run" /\ pc = "returned"
    /\ LastDay /\ ~LastCategory /\ ~Processed.raised
    /\ sheets' = SheetsAfter
    /\ unique_linux_ips' = LinuxAfter
    /\ unique_windows_ips' = WindowsAfter
    /\ total_services' = ServicesAfter
    /\ total_healthchecks' = HealthchecksAfter
    /\ main_results' = <<>>
    /\ StartUnit(environment, Categories[CatIndex(query_name) + 1], 0)
    /\ UNCHANGED <<rev, backend, limit, normVars, main_pc, combined_summary_data,
                   summary_written, fetched, deviations, deviant_at, rerunVars, tabVars, clockVars>>

\* (variant: the sets and the counters are carried over to the next environment)
NextEnvironment_carry ==
    /\ main_pc = "run" /\ pc = "returned"
    /\ LastDay /\ LastCategory /\ ~LastEnvironment /\ ~Processed.raised
    /\ sheets' = SheetsAfter
    /\ combined_summary_data' = Append(combined_summary_data, SummaryRow)
    /\ unique_linux_ips' = LinuxAfter
    /\ unique_windows_ips' = WindowsAfter
    /\ total_services' = ServicesAfter
    /\ total_healthchecks' = HealthchecksAfter
    /\ main_results' = <<>>
    /\ StartUnit(environments[EnvIndex(environment) + 1], Categories[1], 0)
    /\ UNCHANGED <<rev, backend, limit, normVars, main_pc, summary_written, fetched,
                   deviations, deviant_at, rerunVars, tabVars, clockVars>>

\* The last day of the last category returned: as above, then the summary
\* row of the environment, and the next environment starts from fresh counters.
NextEnvironment ==
    /\ main_pc = "run" /\ pc = "returned"
    /\ LastDay /\ LastCategory /\ ~LastEnvironment /\ ~Processed.raised
    /\ sheets' = SheetsAfter
    /\ combined_summary_data' = Append(combined_summary_data, SummaryRow)
    /\ unique_linux_ips' = {}
    /\ unique_windows_ips' = {}
    /\ total_services' = 0
    /\ total_healthchecks' = 0
    /\ main_results' = <<>>
    /\ StartUnit(environments[EnvIndex(environment) + 1], Categories[1], 0)
    /\ UNCHANGED <<rev, backend, limit, normVars, main_pc, summary_written, fetched,
                   deviations, deviant_at, rerunVars, tabVars, clockVars>>

\* The last unit returned: as above, then the 'Inventory Summary' sheet.
Finish ==
    /\ main_pc = "run" /\ pc = "returned"
    /\ LastDay /\ LastCategory /\ LastEnvironment /\ ~Processed.raised
    /\ sheets' = SheetsAfter
    /\ unique_linux_ips' = LinuxAfter
    /\ unique_windows_ips' = WindowsAfter
    /\ total_services' = ServicesAfter
    /\ total_healthchecks' = HealthchecksAfter
    /\ combined_summary_data' = Append(combined_summary_data, SummaryRow)
    /\ summary_written' = TRUE
    /\ main_results' = CategoryResults
    /\ main_pc' = "done"
    /\ UNCHANGED <<unitVars, pagVars, normVars, units, fetched, deviations, deviant_at,
                   rerunVars, tabVars, clockVars>>

\* process_query_results raises something that is no KeyError: nothing in
\* main catches it.
ProcessRaises ==
    /\ main_pc = "run" /\ pc = "returned"
    /\ LastDay /\ Processed.raised
    /\ main_results' = CategoryResults
    /\ main_pc' = "crashed"
    /\ UNCHANGED <<unitVars, pagVars, normVars, sheets, unique_linux_ips,
                   unique_windows_ips, total_services, total_healthchecks,
                   combined_summary_data, summary_written, units, fetched, deviations,
                   deviant_at, rerunVars, tabVars, clockVars>>

\* main(config) at the first call of run_graphql_query_for_day.
MainInit ==
    /\ rev = 2
    /\ backend \in {[mode |-> "faithful", T |-> MainRecords, declares |-> FALSE,
                      out |-> o] : o \in Outages}
    /\ environment = environments[1]
    /\ query_name = Categories[1]
    /\ day_offset = 0
    /\ limit = MainLimit
    /\ offset = 0
    /\ all_results = <<>>
    /\ total_records = NoTotal
    /\ pc = "loop"
    /\ requests = <<>>
    /\ log = <<>>
    /\ first_total = NoTotal
    /\ batch = <<>>
    /\ df = <<>>
    /\ norm_pc = "idle"
    /\ main_pc = "run"
    /\ main_results = <<>>
    /\ sheets = <<>>
    /\ unique_linux_ips = {}
    /\ unique_windows_ips = {}
    /\ total_services = 0
    /\ total_healthchecks = 0
    /\ combined_summary_data = <<>>
    /\ summary_written = FALSE
    /\ units = <<<<environments[1], Categories[1], 0>>>>
    /\ fetched = [ec \in EnvCats |-> <<>>]
    /\ deviations = 0
    /\ deviant_at = 0
    /\ RerunIdle /\ TabIdle /\ ClockIdle

MainNext ==
    \/ MainRequest
    \/ NextDay
    \/ NextCategory
    \/ NextEnvironment
    \/ Finish
    \/ ProcessRaises

SpecMain == MainInit /\ [][MainNext]_vars

----------------------------------------------------------------------------
(* run_graphql_query_for_day called twice with the same arguments against  *)
(* a remote service whose data and answers do not change: the answer to a  *)
(* request is a function of the request, here of its offset.               *)

\* What the remote service may answer at the offset of the next request: what
\* it answered when the offset was asked before, anything it can when not.
StableReplies ==
    IF offset \in DOMAIN answers THEN {answers[offset]}
    ELSE Replies(backend, Unit, offset, limit)

\* One iteration of the loop, the answer being remembered.
RerunRequest ==
    /\ main_pc = "idle"
    /\ backend.mode = "arbitrary" => Len(requests) < MaxRerunRequests
    /\ \E reply \in StableReplies :
          /\ FetchPage(reply)
          /\ answers' = (offset :> reply) @@ answers
    /\ UNCHANGED <<unitVars, normVars, mainVars, runs, tabVars, clockVars>>

\* What is kept of a call that has ended.
Ended == [requests |-> requests, outcome |-> pc, results |-> all_results]

\* The first call has ended, by a return or by an exception, and the function
\* is called again with the same arguments.
Rerun ==
    /\ main_pc = "idle"
    /\ pc \in {"returned", "raised"}
    /\ runs = <<>>
    /\ runs' = Append(runs, Ended)
    /\ StartUnit(environment, query_name, day_offset)
    /\ UNCHANGED <<rev, backend, limit, normVars, main_pc, main_results, sheets,
                   unique_linux_ips, unique_windows_ips, total_services,
                   total_healthchecks, combined_summary_data, summary_written,
                   fetched, deviations, deviant_at, answers, tabVars, clockVars>>

RerunNext == RerunRequest \/ Rerun

SpecRerun == PagInit /\ [][RerunNext]_vars

----------------------------------------------------------------------------
(* The two revisions of run_graphql_query_for_day, one after the other,    *)
(* with the same arguments against the same faithful remote service.       *)

\* Revision 1 has returned, and revision 2.0 is called with the same arguments.
OtherRevision ==
    /\ main_pc = "idle"
    /\ pc = "returned"
    /\ rev = 1
    /\ rev' = 2
    /\ runs' = Append(runs, Ended)
    /\ StartUnit(environment, query_name, day_offset)
    /\ UNCHANGED <<backend, limit, normVars, main_pc, main_results, sheets,
                   unique_linux_ips, unique_windows_ips, total_services,
                   total_healthchecks, combined_summary_data, summary_written,
                   fetched, deviations, deviant_at, answers, tabVars, clockVars>>

RevisionsInit == PagInit /\ rev = 1 /\ backend.mode = "faithful"

RevisionsNext == Request \/ OtherRevision

SpecRevisions == RevisionsInit /\ [][RevisionsNext]_vars

----------------------------------------------------------------------------
(* The name of a detail sheet: main, line 319 *)

\* [:28] in the tab name
CategoryCut == 28

Underscore == "_"

\* The keys of query_templates, character by character.
QueryChars(q) ==
    CASE q = "Services" -> <<"S", "e", "r", "v", "i", "c", "e", "s">>
      [] q = "Linux Agents" -> <<"L", "i", "n", "u", "x", " ", "A", "g", "e", "n", "t", "s">>
      [] q = "Windows Agents" ->
            <<"W", "i", "n", "d", "o", "w", "s", " ", "A", "g", "e", "n", "t", "s">>
      [] q = "Healthchecks" -> <<"H", "e", "a", "l", "t", "h", "c", "h", "e", "c", "k", "s">>

\* str.replace(old, new) for single characters
Replace(str, old, new) == [i \in 1..Len(str) |-> IF str[i] = old THEN new ELSE str[i]]

\* str[:n]
Slice(str, n) == SubSeq(str, 1, Min(n, Len(str)))

\* tab_name = f"{environment}_{query_name.replace(' ', '_')[:28]}"
tab_name(env, q) ==
    env \o <<Underscore>> \o Slice(Replace(QueryChars(q), Space, Underscore), CategoryCut)

\* The environment names the naming is tried on: names of every length up to
\* MaxEnvLen, a name with spaces around it, names with underscores.
Repeat(c, n) == [i \in 1..n |-> c]

EnvNameChars ==
    {Repeat("e", n) : n \in 1..MaxEnvLen}
    \cup {Padded(<<"e">>), <<"e", "_">>, <<"e", "_", "L", "i", "n", "u", "x">>}

\* One iteration of the loops as far as the sheet name goes: the environment
\* is stripped (line 293) and the name is built (line 319).
BuildTabName ==
    /\ Len(tab_names) < Len(tab_args)
    /\ LET arg == tab_args[Len(tab_names) + 1]
       IN  tab_names' = Append(tab_names, tab_name(Strip(arg[1]), arg[2]))
    /\ UNCHANGED <<unitVars, pagVars, normVars, mainVars, rerunVars, tab_args, clockVars>>

\* The paginator's variables while no call is running.
PagIdle ==
    /\ rev = 2
    /\ backend = [mode |-> "arbitrary", T |-> 0, declares |-> FALSE]
    /\ environment = environments[1]
    /\ query_name = Categories[1]
    /\ day_offset = 0
    /\ limit = 1
    /\ offset = 0
    /\ all_results = <<>>
    /\ total_records = NoTotal
    /\ pc = "idle"
    /\ requests = <<>>
    /\ log = <<>>
    /\ first_total = NoTotal

NormIdle == batch = <<>> /\ df = <<>> /\ norm_pc = "idle"

TabInit ==
    /\ tab_args \in {<<a, b>> : a, b \in EnvNameChars \X CategorySet}
    /\ tab_names = <<>>
    /\ PagIdle /\ NormIdle /\ MainIdle /\ RerunIdle /\ ClockIdle

TabNext == BuildTabName

SpecTabNames == TabInit /\ [][TabNext]_vars

----------------------------------------------------------------------------
(* The day windows: get_daily_time_range and the day loop of main. An      *)
(* instant is a number of ticks since the midnight that starts day 0, UTC. *)

\* The readings of the clock: late enough for the window to have days before it.
Clocks == (LastXDays * TicksPerDay)..(LastXDays * TicksPerDay + MaxClock)

\* datetime.isoformat() + 'Z': the date, the time of day, the suffix.
IsoFormatZ(t) == [date |-> t \div TicksPerDay, time |-> t % TicksPerDay, zone |-> "Z"]

\* (variant: the time of day is kept)
StartOfDay_asIs(day) == day

\* day.replace(hour=0, minute=0, second=0, microsecond=0)
StartOfDay(day) == day - (day % TicksPerDay)

get_daily_time_range(day) ==
    LET start_time == StartOfDay(day)
        end_time == start_time + TicksPerDay
    IN  <<IsoFormatZ(start_time), IsoFormatZ(end_time)>>

\* target_day = current_day - datetime.timedelta(days=day_offset)
target_day(offset_days) == current_day - offset_days * TicksPerDay

\* One iteration of the day loop as far as the window goes.
ComputeWindow ==
    /\ Len(windows) < LastXDays
    /\ day_offset' = Len(windows)
    /\ windows' = Append(windows, get_daily_time_range(target_day(Len(windows))))
    /\ UNCHANGED <<environment, query_name, pagVars, normVars, mainVars, rerunVars,
                   tabVars, current_day>>

WindowsInit ==
    /\ current_day \in Clocks
    /\ windows = <<>>
    /\ PagIdle /\ NormIdle /\ MainIdle /\ RerunIdle /\ TabIdle

WindowsNext == ComputeWindow

SpecWindows == WindowsInit /\ [][WindowsNext]_vars

----------------------------------------------------------------------------
(* The day windows of a whole run of main: the loops over the environments, *)
(* the categories and the days, with the clock going on while the run      *)
(* lasts. Revision 1 reads the clock once, before the category loop, and   *)
(* has one environment; revision 2.0 reads it at the top of every          *)
(* iteration of the environment loop.                                      *)

\* What datetime.utcnow() may return when the reading before it was t.
LaterReadings(t) == {u \in Clocks : u >= t}

\* The window of the unit of the running iteration, from the last reading.
WindowOfUnit ==
    /\ windows' = Append(windows, get_daily_time_range(target_day(day_offset)))
    /\ units' = Append(units, Unit)

WindowNextDay ==
    /\ main_pc = "run" /\ pc = "idle"
    /\ ~LastDay
    /\ WindowOfUnit
    /\ day_offset' = day_offset + 1
    /\ UNCHANGED <<environment, query_name, pagVars, normVars, main_pc, main_results,
                   sheets, unique_linux_ips, unique_windows_ips, total_services,
                   total_healthchecks, combined_summary_data, summary_written,
                   fetched, deviations, deviant_at, rerunVars, tabVars, current_day>>

WindowNextCategory ==
    /\ main_pc = "run" /\ pc = "idle"
    /\ LastDay /\ ~LastCategory
    /\ WindowOfUnit
    /\ query_name' = Categories[CatIndex(query_name) + 1]
    /\ day_offset' = 0
    /\ UNCHANGED <<environment, pagVars, normVars, main_pc, main_results,
                   sheets, unique_linux_ips, unique_windows_ips, total_services,
                   total_healthchecks, combined_summary_data, summary_written,
                   fetched, deviations, deviant_at, rerunVars, tabVars, current_day>>

\* Revision 2.0 only: the next environment starts with a new reading of the clock.
WindowNextEnvironment ==
    /\ main_pc = "run" /\ pc = "idle"
    /\ rev = 2
    /\ LastDay /\ LastCategory /\ ~LastEnvironment
    /\ WindowOfUnit
    /\ environment' = environments[EnvIndex(environment) + 1]
    /\ query_name' = Categories[1]
    /\ day_offset' = 0
    /\ current_day' \in LaterReadings(current_day)
    /\ UNCHANGED <<pagVars, normVars, main_pc, main_results,
                   sheets, unique_linux_ips, unique_windows_ips, total_services,
                   total_healthchecks, combined_summary_data, summary_written,
                   fetched, deviations, deviant_at, rerunVars, tabVars>>

WindowsFinish ==
    /\ main_pc = "run" /\ pc = "idle"
    /\ LastDay /\ LastCategory /\ (rev = 1 \/ LastEnvironment)
    /\ WindowOfUnit
    /\ main_pc' = "done"
    /\ UNCHANGED <<unitVars, pagVars, normVars, main_results,
                   sheets, unique_linux_ips, unique_windows_ips, total_services,
                   total_healthchecks, combined_summary_data, summary_written,
                   fetched, deviations, deviant_at, rerunVars, tabVars, current_day>>

\* main at the first reading of the clock.
RunWindowsInit ==
    /\ rev \in {1, 2}
    /\ backend = [mode |-> "arbitrary", T |-> 0, declares |-> FALSE]
    /\ environment = environments[1]
    /\ query_name = Categories[1]
    /\ day_offset = 0
    /\ limit = 1
    /\ offset = 0
    /\ all_results = <<>>
    /\ total_records = NoTotal
    /\ pc = "idle"
    /\ requests = <<>>
    /\ log = <<>>
    /\ first_total = NoTotal
    /\ main_pc = "run"
    /\ main_results = <<>>
    /\ sheets = <<>>
    /\ unique_linux_ips = {}
    /\ unique_windows_ips = {}
    /\ total_services = 0
    /\ total_healthchecks = 0
    /\ combined_summary_data = <<>>
    /\ summary_written = FALSE
    /\ units = <<>>
    /\ fetched = [ec \in EnvCats |-> <<>>]
    /\ deviations = 0
    /\ deviant_at = 0
    /\ current_day \in Clocks
    /\ windows = <<>>
    /\ NormIdle /\ RerunIdle /\ TabIdle

RunWindowsNext ==
    \/ WindowNextDay
    \/ WindowNextCategory
    \/ WindowNextEnvironment
    \/ WindowsFinish

SpecRunWindows == RunWindowsInit /\ [][RunWindowsNext]_vars

----------------------------------------------------------------------------
(* Properties of run_graphql_query_for_day, under SpecPaginator *)

\* The records of the pages that the first k requests brought back.
PagesOf(entries, k) == Concat([i \in 1..k |-> entries[i].results])

OffsetsFromZero == \A i \in 1..Len(requests) : requests[i] = (i - 1) * limit

Faithful == backend.mode = "faithful"

Ceil(a, b) == (a + b - 1) \div b

\* The backend's whole result set for the unit.
AllRecords == Page(Unit, TemplateKey(query_name), 0, backend.T, GoodFields(IP1))

\* C1 as stated: against a faithful backend holding T records the call returns
\* exactly the T records after exactly ceil(T / limit) requests at offsets
\* 0, limit, 2 * limit, ..., in both revisions, with or without a declared total.
C1_CeilRequests ==
    (Faithful /\ pc = "returned") =>
        /\ all_results = AllRecords
        /\ OffsetsFromZero
        /\ Len(requests) = Ceil(backend.T, limit)

\* The number of requests one call makes against a faithful backend: one
\* request past the last full page, unless revision 2.0 sees the declared
\* total reached by a full page.
RequestsMade ==
    IF rev = 2 /\ backend.declares /\ backend.T > 0 /\ backend.T % limit = 0
    THEN backend.T \div limit
    ELSE (backend.T \div limit) + 1

\* C1 amended: against a faithful backend holding T records the call returns
\* exactly the T records, at offsets 0, limit, 2 * limit, ..., after
\* floor(T / limit) + 1 requests; only revision 2.0, against a backend that
\* declares the total T > 0 with T a multiple of limit, makes T / limit.
C1_RecordsAndRequests ==
    (Faithful /\ pc = "returned") =>
        /\ all_results = AllRecords
        /\ OffsetsFromZero
        /\ Len(requests) = RequestsMade

C1_Witness ==
    /\ Faithful /\ pc = "returned"
    /\ backend.T = 4 /\ limit = 2 /\ ~backend.declares
    /\ Len(requests) = 3 /\ Len(all_results) = 4

\* C2: within one call the offsets sent to the executor start at 0 and each
\* exceeds the previous one by exactly the page size, so they strictly
\* increase and none is requested twice, whatever the backend answers.
C2_OffsetsAdvanceByLimit ==
    /\ OffsetsFromZero
    /\ \A i, j \in 1..Len(requests) : i < j => requests[i] < requests[j]
    /\ pc = "loop" => offset = Len(requests) * limit

C2_Witness ==
    /\ ~Faithful /\ limit = 2 /\ requests = <<0, 2, 4>>
    /\ Last(log).outcome = "none"

\* C3: when the executor fails on the k-th request (run_graphql_query returns
\* None), that request is the last one of the call and the call returns the
\* concatenation of the k - 1 earlier pages.
C3_FailureKeepsEarlierPages ==
    \A k \in 1..Len(log) :
        log[k].outcome = "none" =>
            /\ k = Len(log)
            /\ Len(requests) = k
            /\ pc = "returned"
            /\ all_results = PagesOf(log, k - 1)

C3_Witness ==
    /\ Len(log) = 3 /\ log[3].outcome = "none" /\ pc = "returned"
    /\ Len(all_results) = 2 * limit /\ limit = 2

\* C4 as stated: after a page, when the declared total is known and the
\* records accumulated so far have reached it, the call has stopped, in both
\* revisions. (The total taken is one that the page just fetched and the first
\* page that declared one agree on.)
C4_StopsAtDeclaredTotal ==
    (/\ log # <<>>
     /\ Last(log).outcome = "page"
     /\ total_records # NoTotal
     /\ total_records = first_total
     /\ Len(all_results) >= total_records) => pc = "returned"

\* C5: a parsed page shorter than the page size is appended and ends the
\* call (a first page of limit - 1 records ends it after one request); a full
\* page that does not reach a declared total is followed by the request at
\* offset + limit.
C5_ShortPageStopsFullPageContinues ==
    /\ log # <<>> /\ Last(log).outcome = "page" =>
          /\ all_results = PagesOf(log, Len(log))
          /\ Len(Last(log).results) < limit => pc = "returned"
          /\ (/\ Len(Last(log).results) = limit
              /\ (total_records = NoTotal \/ Len(all_results) < total_records)) =>
                 (pc = "loop" /\ offset = Last(log).offset + limit)
    /\ \A k \in 1..(Len(log) - 1) :
          /\ log[k].outcome = "page"
          /\ Len(log[k].results) = limit
          /\ requests[k + 1] = log[k].offset + limit

C5_Witness ==
    /\ limit = 2 /\ pc = "returned" /\ Len(requests) = 1
    /\ Last(log).outcome = "page" /\ Len(all_results) = limit - 1

\* C6 as stated: the total that the termination check of revision 2.0
\* compares against is the first total observed that was not None; a later
\* page without a total, or with another one, does not change it.
C6_FirstTotalIsKept == rev = 2 => total_records = first_total

C13_SecondRunRepeatsFirst ==
    runs # <<>> =>
        /\ Len(requests) <= Len(runs[1].requests)
        /\ requests = SubSeq(runs[1].requests, 1, Len(requests))
        /\ requests = <<>> => (offset = 0 /\ all_results = <<>> /\ total_records = NoTotal)
        /\ requests # <<>> => requests[1] = 0
        /\ pc # "loop" =>
              /\ requests = runs[1].requests
              /\ pc = runs[1].outcome
              /\ all_results = runs[1].results

C13_Witness ==
    /\ runs # <<>> /\ pc = "returned" /\ ~Faithful
    /\ limit = 2 /\ requests = <<0, 2>> /\ Len(all_results) = 2
    /\ Last(log).outcome = "none"
    /\ runs[1].results = all_results

\* The most requests a call makes against a backend holding T records.
RequestBound == (backend.T \div limit) + 1

WithinRequestBound ==
    /\ Len(requests) <= RequestBound
    /\ Len(requests) = RequestBound => pc # "loop"

\* C20: against a backend that holds T records, returns at most limit
\* records for a request and fewer than limit past the end of its data,
\* the call makes at most floor(T / limit) + 1 requests and ends (by a
\* return or an exception), whatever failures and totals it is answered with.
C20_EndsWithinRequestBound == []WithinRequestBound /\ <>(pc # "loop")

C20_Witness ==
    /\ backend.mode = "bounded" /\ backend.T = 2 /\ limit = 1 /\ rev = 2
    /\ Len(requests) = 3 /\ pc = "returned"
    /\ log[1].outcome = "page" /\ log[2].outcome = "page" /\ log[3].outcome = "none"
    /\ first_total # NoTotal

\* C18 as stated: every iteration sends one request, and run_graphql_query
\* returns None exactly when the transport fails, the status is no success,
\* or the body holds a non-empty errors array; a body whose errors array is
\* empty is handed to the paginator like one without errors.
C18_NoneOnlyOnFailure ==
    /\ Len(requests) = Len(log)
    /\ \A k \in 1..Len(log) :
          log[k].outcome = "none" <=>
              (log[k].status # "ok" \/ log[k].errors = "nonempty")

----------------------------------------------------------------------------
(* Properties of run_graphql_query_for_day, under SpecOversize *)

\* No page read so far held more records than the page size asked for.
NoOversizePage == \A k \in 1..Len(log) : Len(log[k].results) <= limit

\* C21: as long as no page holds more than limit records, the offset of
\* every request is the number of records accumulated before it, the
\* requests go by increasing offset, all_results is the concatenation of the
\* pages read, in that order, and its i-th record is the i-th record of the
\* backend's result set: none twice, none skipped.
C21_OffsetIsRecordCount ==
    NoOversizePage =>
        /\ \A k \in 1..Len(requests) : requests[k] = Len(PagesOf(log, k - 1))
        /\ \A k \in 1..(Len(requests) - 1) : requests[k] < requests[k + 1]
        /\ pc = "loop" => offset = Len(all_results)
        /\ all_results = PagesOf(log, Len(log))
        /\ \A i \in 1..Len(all_results) : all_results[i].id = i

C21_Witness ==
    /\ NoOversizePage
    /\ limit = 2 /\ Len(requests) = 3 /\ requests[3] = 4
    /\ Len(all_results) = 5 /\ pc = "returned"

----------------------------------------------------------------------------
(* Properties of the two revisions side by side, under SpecRevisions *)

\* C22: against a backend that serves its records faithfully and declares
\* either no total or the true one, revision 2.0 returns the records that
\* revision 1 returned, in the same order, and at no point has it sent more
\* requests than revision 1 did (it sends the same offsets, and may stop
\* sooner).
C22_SameRecordsNoMoreRequests ==
    (rev = 2 /\ runs # <<>>) =>
        /\ pc # "raised"
        /\ Len(requests) <= Len(runs[1].requests)
        /\ requests = SubSeq(runs[1].requests, 1, Len(requests))
        /\ pc = "returned" => all_results = runs[1].results

C22_Witness ==
    /\ rev = 2 /\ runs # <<>> /\ pc = "returned"
    /\ backend.declares /\ backend.T = 4 /\ limit = 2
    /\ Len(all_results) = 4
    /\ Len(requests) = 2 /\ Len(runs[1].requests) = 3

----------------------------------------------------------------------------
(* Properties of main, under SpecMain *)

\* The units of a run in the order of the three nested loops.
AllUnits ==
    [i \in 1..(NumEnvs * Len(Categories) * LastXDays) |->
        <<environments[((i - 1) \div (Len(Categories) * LastXDays)) + 1],
          Categories[(((i - 1) \div LastXDays) % Len(Categories)) + 1],
          (i - 1) % LastXDays>>]

\* C7 as stated: whatever the executor returns, main starts every unit once,
\* in the order environment, category, day, never ends with an exception, and
\* ends with the summary written.
C7_EveryUnitAttempted ==
    /\ main_pc # "crashed"
    /\ units = SubSeq(AllUnits, 1, Len(units))
    /\ main_pc = "done" => (units = AllUnits /\ summary_written)

\* C8: a payload whose data holds neither 'explore' nor 'entities' ends the
\* pagination of its unit at once, the call returns the pages it had, and the
\* records of the other days and the sheets of the other categories are what
\* was fetched for them.
C8_UnexpectedStopsUnitOnly ==
    /\ \A k \in 1..Len(log) :
          log[k].outcome = "unexpected" =>
              /\ k = Len(log)
              /\ Len(requests) = k
              /\ pc = "returned"
              /\ all_results = PagesOf(log, k - 1)
    /\ main_pc = "run" =>
          main_results \o all_results = fetched[<<environment, query_name>>]
    /\ \A i \in 1..Len(sheets) :
          sheets[i].rows =
              process_query_results(sheets[i].query_name,
                  fetched[<<sheets[i].environment, sheets[i].query_name>>]).rows

C8_Witness ==
    /\ main_pc = "run" /\ pc = "returned"
    /\ query_name = "Linux Agents" /\ day_offset = 1
    /\ Len(log) = 2 /\ log[2].outcome = "unexpected"
    /\ Len(all_results) = 1 /\ Len(main_results) = 1 /\ Len(sheets) = 1

\* The normalized rows of everything fetched for a category of an environment
\* over the days of the window.
NormalizedRows(env, q) == process_query_results(q, fetched[<<env, q>>]).rows

\* The distinct ip values among those rows.
DistinctIps(env, q) ==
    LET rows == NormalizedRows(env, q)
    IN  {rows[i].ip : i \in 1..Len(rows)}

\* C14: in the summary row of each environment, total_linux_ips and
\* total_windows_ips are the numbers of distinct ip values among the
\* normalized rows of the Linux-agent and Windows-agent records of all days of
\* the window: an ip seen on several days is counted once.
C14_DistinctIpsCounted ==
    \A i \in 1..Len(combined_summary_data) :
        LET row == combined_summary_data[i]
        IN  /\ row.total_linux_ips = Cardinality(DistinctIps(row.environment, "Linux Agents"))
            /\ row.total_windows_ips =
                   Cardinality(DistinctIps(row.environment, "Windows Agents"))

\* C15: the summary written at the end of a run has one row for each
\* configured environment, in the order of the configuration, also for an
\* environment all of whose requests failed or brought nothing; its
\* total_services and total_healthchecks are the numbers of normalized rows of
\* the category over the days of the window, 0 when there is none.
C15_OneRowPerEnvironment ==
    /\ Len(combined_summary_data) <= NumEnvs
    /\ \A i \in 1..Len(combined_summary_data) :
          LET row == combined_summary_data[i]
          IN  /\ row.environment = environments[i]
              /\ row.total_services = Len(NormalizedRows(row.environment, "Services"))
              /\ row.total_healthchecks =
                     Len(NormalizedRows(row.environment, "Healthchecks"))
    /\ (main_pc = "done" \/ summary_written) =>
          (Len(combined_summary_data) = NumEnvs /\ main_pc = "done" /\ summary_written)

C15_Witness ==
    /\ main_pc = "done" /\ summary_written
    /\ backend.out = [env |-> "prod", how |-> "fails"]
    /\ \A q \in CategorySet : fetched[<<"prod", q>>] = <<>>
    /\ combined_summary_data[1] =
          [environment |-> "prod", total_linux_ips |-> 0, total_windows_ips |-> 0,
           total_services |-> 0, total_healthchecks |-> 0]
    /\ combined_summary_data[2].total_services = LastXDays * MainRecords
    /\ combined_summary_data[2].total_healthchecks = LastXDays * MainRecords

\* The rows of the detail sheet written for a category of an environment,
\* none when no sheet was written.
RowsWritten(env, q) ==
    LET written == {i \in 1..Len(sheets) :
                       sheets[i].environment = env /\ sheets[i].query_name = q}
    IN  IF written = {} THEN <<>> ELSE sheets[CHOOSE i \in written : TRUE].rows

\* Every record of the sequence was fetched for the category of the environment.
FetchedFor(records, env, q) ==
    \A i \in 1..Len(records) : records[i].unit[1] = env /\ records[i].unit[2] = q

\* C23: the record list of a category holds only records fetched for that
\* category of the running environment and is empty when its first day
\* starts; the sets and counters are empty and 0 while the first category of
\* an environment is fetched; every row of a detail sheet comes from a record
\* fetched for the sheet's environment and category; and the counts of a
\* summary row are those of the detail sheets of its own environment (0
\* where none was written), whatever happened to the other units.
C23_AccumulatorsIsolated ==
    /\ FetchedFor(main_results, environment, query_name)
    /\ (main_pc = "run" /\ day_offset = 0) => main_results = <<>>
    /\ (main_pc = "run" /\ query_name = Categories[1]) =>
          /\ unique_linux_ips = {} /\ unique_windows_ips = {}
          /\ total_services = 0 /\ total_healthchecks = 0
    /\ \A i \in 1..Len(sheets) :
          FetchedFor(sheets[i].rows, sheets[i].environment, sheets[i].query_name)
    /\ \A i \in 1..Len(combined_summary_data) :
          LET row == combined_summary_data[i]
          IN  /\ row.total_services = Len(RowsWritten(row.environment, "Services"))
              /\ row.total_healthchecks = Len(RowsWritten(row.environment, "Healthchecks"))
              /\ row.total_linux_ips =
                     Cardinality(IpsOf(RowsWritten(row.environment, "Linux Agents")))
              /\ row.total_windows_ips =
                     Cardinality(IpsOf(RowsWritten(row.environment, "Windows Agents")))

C23_Witness ==
    /\ main_pc = "done"
    /\ backend.out = [env |-> "staging", how |-> "fails"]
    /\ Len(sheets) = 4
    /\ combined_summary_data[1].total_services = LastXDays * MainRecords
    /\ combined_summary_data[1].total_linux_ips = 1
    /\ combined_summary_data[2] =
          [environment |-> "staging", total_linux_ips |-> 0, total_windows_ips |-> 0,
           total_services |-> 0, total_healthchecks |-> 0]

\* The sheets of a kind in the workbook.
SheetsOfKind(kind) == {i \in 1..Len(sheets) : sheets[i].kind = kind}

\* C16 as stated: when every category of every environment has at least one
\* normalized row, the finished report holds 4 detail sheets and 2
\* deduplicated-IP sheets for each environment, and a summary of one row for
\* each environment.
C16_SheetsOfTheReport ==
    (/\ main_pc = "done"
     /\ \A e \in 1..NumEnvs, q \in CategorySet : NormalizedRows(environments[e], q) # <<>>) =>
        /\ Cardinality(SheetsOfKind("detail")) = 4 * NumEnvs
        /\ Cardinality(SheetsOfKind("dedup")) = 2 * NumEnvs
        /\ summary_written /\ Len(combined_summary_data) = NumEnvs

C14_Witness ==
    /\ Len(combined_summary_data) >= 1
    /\ combined_summary_data[1].total_linux_ips = 1
    /\ LET rows == NormalizedRows("prod", "Linux Agents")
       IN  /\ Len(rows) = 2
           /\ rows[1].unit[3] = 0 /\ rows[2].unit[3] = 1
           /\ rows[1].ip = rows[2].ip

----------------------------------------------------------------------------
(* Properties of the sheet names, under SpecTabNames *)

\* The longest name a worksheet may have ("Limit tab name to 31 chars").
SheetNameLimit == 31

\* The environment (stripped) and the category a name was built for.
TabPair(i) == <<Strip(tab_args[i][1]), tab_args[i][2]>>

TabNamesDistinct ==
    \A i, j \in 1..Len(tab_names) : TabPair(i) # TabPair(j) => tab_names[i] # tab_names[j]

\* C17 as stated: every detail sheet name built from an environment name and
\* a category has at most 31 characters, whatever the environment name, and
\* two distinct (environment, category) pairs never get the same name.
C17_TabNamesFit ==
    /\ \A i \in 1..Len(tab_names) : Len(tab_names[i]) <= SheetNameLimit
    /\ TabNamesDistinct

----------------------------------------------------------------------------
(* Properties of the day windows, under SpecWindows *)

\* The instant a formatted time denotes.
Instant(iso) == iso.date * TicksPerDay + iso.time

WindowStart(i) == Instant(windows[i][1])

WindowEnd(i) == Instant(windows[i][2])

\* C19: the windows of day offsets 0, 1, ... are whole UTC calendar days
\* [midnight, next midnight) of exactly one day each; the first holds the
\* reading of the clock, each next one ends where the one before starts, and no
\* two of them overlap: no instant of the span is covered twice or skipped.
C19_ConsecutiveCalendarDays ==
    /\ \A i \in 1..Len(windows) :
          /\ windows[i][1].zone = "Z" /\ windows[i][2].zone = "Z"
          /\ windows[i][1].time = 0 /\ windows[i][2].time = 0
          /\ WindowEnd(i) - WindowStart(i) = TicksPerDay
    /\ windows # <<>> => (WindowStart(1) <= current_day /\ current_day < WindowEnd(1))
    /\ \A i \in 1..(Len(windows) - 1) : WindowEnd(i + 1) = WindowStart(i)
    /\ \A i, j \in 1..Len(windows) :
          i # j => (WindowEnd(i) <= WindowStart(j) \/ WindowEnd(j) <= WindowStart(i))
    /\ \A t \in (current_day - (Len(windows) - 1) * TicksPerDay)..current_day :
          Cardinality({i \in 1..Len(windows) : WindowStart(i) <= t /\ t < WindowEnd(i)}) = 1

C19_Witness ==
    /\ Len(windows) = LastXDays
    /\ current_day % TicksPerDay = TicksPerDay - 1
    /\ WindowEnd(1) = current_day + 1
    /\ WindowStart(LastXDays) = current_day + 1 - LastXDays * TicksPerDay

----------------------------------------------------------------------------
(* Properties of the day windows of a run, under SpecRunWindows *)

\* The positions in the run of the units of a category of an environment.
UnitsOf(ec) == {k \in 1..Len(units) : units[k][1] = ec[1] /\ units[k][2] = ec[2]}

\* The windows a category of an environment was queried over.
WindowsOf(ec) == {windows[k] : k \in UnitsOf(ec)}

AllDaysQueried(ec) == Cardinality(UnitsOf(ec)) = LastXDays

\* C24 as stated: in one run, every category of every environment is
\* queried over the same set of day windows, wherever the clock stands when
\* each of them is reached.
C24_SameWindowsEverywhere ==
    \A a, b \in EnvCats :
        (AllDaysQueried(a) /\ AllDaysQueried(b)) => WindowsOf(a) = WindowsOf(b)

\* What holds: the categories of one environment are queried over the same
\* windows, and so is everything in revision 1.
SameWindowsWithinEnvironment ==
    /\ \A a, b \in EnvCats :
          (a[1] = b[1] /\ AllDaysQueried(a) /\ AllDaysQueried(b)) => WindowsOf(a) = WindowsOf(b)
    /\ rev = 1 => C24_SameWindowsEverywhere

----------------------------------------------------------------------------
(* Properties of process_query_results, under SpecNormalizer *)

\* A candidate that is absent, empty or made of whitespace only.
NoIpIn(field) == field.kind # "str" \/ Strip(field.value) = <<>>

NoUsableIp(f) ==
    NoIpIn(f.tags_host_ip) /\ NoIpIn(f.tags_net_peer_ip) /\ NoIpIn(f.requestHeaders_host_ip)

\* C10 as stated: every row emitted for an agent or healthcheck category has
\* a non-empty ip after trimming, and a raw record whose three candidates are
\* all absent, empty or whitespace-only gives no row.
C10_NonEmptyIp ==
    (norm_pc = "returned" /\ query_name # "Services") =>
        /\ \A i \in 1..Len(df) : df[i].ip # <<>>
        /\ \A j \in 1..Len(batch) :
              NoUsableIp(batch[j].f) => \A i \in 1..Len(df) : df[i].id # batch[j].id

\* The candidates of a raw record in the order of priority.
Candidates(f) == <<f.tags_host_ip, f.tags_net_peer_ip, f.requestHeaders_host_ip>>

NonEmpty(field) == field.kind = "str" /\ Len(field.value) > 0

\* The raw record of the batch that a row was made from.
RecordOf(row) == batch[row.id]

\* C11: the ip of every row emitted for an agent or healthcheck record is the
\* trimmed value of the first of tags_host_ip, tags_net_peer_ip,
\* requestHeaders_host_ip whose value is a non-empty string; with both the
\* host tag and the peer tag populated it is the (trimmed) host tag.
C11_FirstCandidateWins ==
    (norm_pc = "returned" /\ query_name # "Services") =>
        \A i \in 1..Len(df) :
            LET c == Candidates(RecordOf(df[i]).f)
            IN  /\ \E k \in 1..3 :
                      /\ NonEmpty(c[k])
                      /\ \A j \in 1..(k - 1) : ~NonEmpty(c[j])
                      /\ df[i].ip = Strip(c[k].value)
                /\ (NonEmpty(c[1]) /\ NonEmpty(c[2])) => df[i].ip = Strip(c[1].value)

C11_Witness ==
    /\ norm_pc = "returned" /\ query_name = "Linux Agents" /\ Len(df) = 2
    /\ batch[1].f.tags_host_ip = StrField(IP1) /\ batch[1].f.tags_net_peer_ip = StrField(IP2)
    /\ df[1].ip = IP1
    /\ batch[2].f.tags_host_ip = NoValueField
    /\ batch[2].f.requestHeaders_host_ip = StrField(Padded(IP2))
    /\ df[2].ip = IP2

\* A raw record that has an IP, its interval start and its call count.
Complete(rec) ==
    /\ \E k \in 1..3 : NonEmpty(Candidates(rec.f)[k])
    /\ \A k \in 1..3 : Candidates(rec.f)[k].kind # "null"
    /\ rec.f.hasIntervalStart
    /\ rec.f.count_calls.kind = "str"

\* A raw record that has an IP and lacks its interval start or its call count.
Malformed(rec) ==
    /\ \E k \in 1..3 : NonEmpty(Candidates(rec.f)[k])
    /\ \A k \in 1..3 : Candidates(rec.f)[k].kind # "null"
    /\ ~rec.f.hasIntervalStart \/ rec.f.count_calls.kind \in {"absent", "novalue"}

\* C12 as stated: a record that has an IP and lacks its interval start or its
\* call count is dropped alone: every complete record of the same batch still
\* has its row in the output.
C12_OnlyMalformedDropped ==
    (/\ norm_pc = "returned" /\ query_name # "Services"
     /\ \A j \in 1..Len(batch) : Complete(batch[j]) \/ Malformed(batch[j])) =>
        \A j \in 1..Len(batch) :
            Complete(batch[j]) => \E i \in 1..Len(df) : df[i].id = batch[j].id

====
